---- MODULE Spec2Model ----
(***************************************************************************)
(* Verification model of the travel itinerary planner                      *)
(* (travel_agent/backend): the day/route planner, the plan validator, the  *)
(* attraction selector, the /plan request handler with its fallbacks, the  *)
(* walking-time estimate, the critic's score and the cache manager.        *)
(*                                                                         *)
(* Conventions                                                             *)
(*  - A place is referred to by its name; PlaceOf(name) gives its fields.  *)
(*  - Scheduled places lie on one meridian, so haversine_km reduces to     *)
(*    r * |dlat|; a latitude is kept as the distance from a base latitude  *)
(*    in units of 0.01 km, which makes round(km, 2) exact.                 *)
(*  - A date of the preferences is the number of hours since              *)
(*    2024-01-01T00:00; the date of a DayPlan is the day offset from       *)
(*    start_date.  DateText / IsoDate give the ISO text where the code     *)
(*    formats one.                                                         *)
(*  - Python None is the string "None" where the field is a string, the    *)
(*    empty tuple where the field is a number (<<n>> is the number n).     *)
(*  - Korean literals of the source are replaced by ASCII text of the      *)
(*    same length where the length matters (the itinerary summary).        *)
(***************************************************************************)
EXTENDS Integers, Sequences, FiniteSets, TLC

VARIABLES
    plan_pc,     \* position inside ItineraryPlannerAgent.plan_days
    plan_in,     \* arguments of plan_days: preferences, places, weather
    plan,        \* the List[DayPlan] the planner is working on / returned
    plan_prev,   \* result of an earlier plan_days call on the same arguments
    val_pc,      \* position of a validate_plans call
    val_days,    \* the List[DayPlan] handed to validate_plans
    val_issues,  \* the issue strings validate_plans returned
    val_itinerary, \* the Itinerary plan_itinerary builds after validation
    sel_pc,      \* position inside AttractionsAgent.select_attractions
    sel_in,      \* candidate places, preferences and weather of the selection
    sel_places,  \* the list of scored place dicts the selector is working on
    sel_out,     \* the List[Place] the selector returned
    pc,          \* position of a POST /plan request inside create_travel_plan
    req,         \* the request: mode and the UserPreferences body
    env,         \* what the outside world does during the request
    resp,        \* the HTTP response
    crew_failed, \* plan_with_crew raised during this request
    graph_failed, \* plan_itinerary raised during this request
    walk_pc,     \* position of an estimate_walk_minutes call
    walk_in,     \* its arguments: km (in 0.01 km) and kmph
    walk_out,    \* the minutes it returned
    crit_pc,     \* position of a CriticAgent.review_itinerary call
    crit_in,     \* what the review finds: issues per category, party, places
    crit_out,    \* the dict review_itinerary returned
    memory_cache,      \* CacheManager.memory_cache, in insertion order
    memory_cache_size, \* CacheManager.memory_cache_size
    cache_files,       \* the <key>.json files of cache_dir
    total_requests,    \* CacheManager.stats["total_requests"]
    now,               \* datetime.now(), in seconds
    cache_ret,         \* the last CacheManager call and what it returned
    last_set,          \* history: per key the arguments of the latest set
    cache_calls        \* number of CacheManager calls made so far

plannerVars == <<plan_pc, plan_in, plan, plan_prev>>
validatorVars == <<val_pc, val_days, val_issues, val_itinerary>>
selectorVars == <<sel_pc, sel_in, sel_places, sel_out>>
handlerVars == <<pc, req, env, resp, crew_failed, graph_failed>>
walkVars == <<walk_pc, walk_in, walk_out>>
criticVars == <<crit_pc, crit_in, crit_out>>
cacheVars == <<memory_cache, memory_cache_size, cache_files, total_requests, now,
               cache_ret, last_set, cache_calls>>

vars == <<plan_pc, plan_in, plan, plan_prev, val_pc, val_days, val_issues, val_itinerary,
          sel_pc, sel_in, sel_places, sel_out,
          pc, req, env, resp, crew_failed, graph_failed,
          walk_pc, walk_in, walk_out, crit_pc, crit_in, crit_out,
          memory_cache, memory_cache_size, cache_files, total_requests, now,
          cache_ret, last_set, cache_calls>>

-----------------------------------------------------------------------------
(* Bounds of the model *)

MaxPlaces == 6          \* longest place list handed to the planner
MaxDays == 2            \* longest trip (num_days) handed to the planner
MaxValidatedDays == 2   \* longest DayPlan list handed to validate_plans
MaxCandidates == 3      \* longest candidate list handed to the selector
MaxCrewDays == 3        \* most DayPlans the crew path assembles
MaxWalkDistance == 600  \* longest distance (0.01 km) given to estimate_walk_minutes
MaxIssues == 3          \* most issues one review method of the critic returns
MaxMemoryItems == 2     \* CacheManager.max_memory_items (1000 in the source)
MaxCacheCalls == 4      \* longest sequence of CacheManager calls
MaxTime == 2            \* latest clock reading, in seconds

-----------------------------------------------------------------------------
(* Generic helpers *)

NoneVal == "None"

Max(a, b) == IF a >= b THEN a ELSE b
Min(a, b) == IF a <= b THEN a ELSE b
Abs(a) == IF a >= 0 THEN a ELSE 0 - a

\* Python slice s[a:b] for 0 <= a, 0 <= b
PySlice(s, a, b) == IF a >= Min(b, Len(s)) THEN <<>> ELSE SubSeq(s, a + 1, Min(b, Len(s)))

\* Python s[a:]
PyFrom(s, a) == PySlice(s, a, Len(s))

RemoveAt(s, i) == SubSeq(s, 1, i - 1) \o SubSeq(s, i + 1, Len(s))

RECURSIVE SumSeq(_)
SumSeq(s) == IF s = <<>> THEN 0 ELSE s[1] + SumSeq(Tail(s))

\* number of positions of s holding x
Count(s, x) == Cardinality({i \in DOMAIN s : s[i] = x})

InjectiveSeqs(S, n) ==
    UNION {{s \in [1..k -> S] : \A i, j \in 1..k : s[i] = s[j] => i = j} : k \in 0..n}

-----------------------------------------------------------------------------
(* schemas.py *)

Paces == {"relaxed", "balanced", "packed"}

\* Transfer field bounds: travel_min ge=1 le=300, distance_km ge=0 le=100
TransferMinLo == 1
TransferMinHi == 300
TransferKmHi == 100

TransferValid(t) ==
    /\ t.travel_min >= TransferMinLo
    /\ t.travel_min <= TransferMinHi
    /\ t.distance_km >= 0
    /\ t.distance_km <= TransferKmHi * 100
    /\ t.mode \in {"walk", "transit", "drive", "bike"}

-----------------------------------------------------------------------------
(* The places of the model: name -> fields of the place dict / Place.      *)
(* p1..p4 are 1 km apart (distance ties), p5 is 1.5 km further, p6 is      *)
(* 21 km from p1 (a walk of more than 300 minutes) and at most 20 km from  *)
(* the others.  mentions holds the interests that occur in the place's     *)
(* description; price_level is <<>> for None (the demo park) and <<0>>     *)
(* for the places service's default when the provider gives no price.      *)

Catalogue ==
    [p1 |-> [category |-> "museum",   lat |-> 0,    est_stay_min |-> 120,
             mentions |-> {"art"},  price_level |-> <<2>>],
     p2 |-> [category |-> "park",     lat |-> 100,  est_stay_min |-> 90,
             mentions |-> {},       price_level |-> <<>>],
     p3 |-> [category |-> "museum",   lat |-> 200,  est_stay_min |-> 60,
             mentions |-> {"art"},  price_level |-> <<3>>],
     p4 |-> [category |-> "landmark", lat |-> 300,  est_stay_min |-> 60,
             mentions |-> {},       price_level |-> <<1>>],
     p5 |-> [category |-> "shopping", lat |-> 450,  est_stay_min |-> 120,
             mentions |-> {},       price_level |-> <<2>>],
     p6 |-> [category |-> "park",     lat |-> 2100, est_stay_min |-> 45,
             mentions |-> {"park"}, price_level |-> <<0>>]]

PlaceNames == DOMAIN Catalogue

CafeBreakName == "cafe break"

FallbackPlaceName(destination) == destination \o " tour"

\* Place(...) as built by the planner for the pseudo places, the catalogue otherwise
PlaceOf(name) ==
    IF name \in PlaceNames THEN Catalogue[name]
    ELSE IF name = CafeBreakName
         THEN [category |-> "restaurant", lat |-> 0, est_stay_min |-> 30]
         ELSE [category |-> "general", lat |-> 0, est_stay_min |-> 180]

PlannerDestinations == {"Paris"}
WeatherConditions == {"clear", "rain"}

-----------------------------------------------------------------------------
(* tools/directions.py *)

\* haversine_km for two points of one meridian, in 0.01 km
HaversineKm(lat1, lat2) == Abs(lat2 - lat1)

\* the walking speeds (km/h) of the model
WalkSpeeds == {3, 4, 5}

\* (km / kmph) * 60 is a product of doubles: for these distances (0.01 km,
\* below 22 km) at the given speed the exact value is a whole number and the
\* double product lies just below it, so that int() gives one minute less
FloatQuotientShort ==
    [kmph \in {3} |->
        {15, 30, 35, 60, 70, 120, 140, 165, 205, 240, 280, 330,
         405, 410, 480, 485, 555, 560, 660, 735, 810, 820, 885, 895,
         960, 970, 1035, 1045, 1110, 1120, 1185, 1195, 1225, 1235, 1245, 1320,
         1395, 1470, 1545, 1620, 1640, 1695, 1715, 1770, 1790, 1845, 1865, 1920,
         1940, 1995, 2015, 2070, 2090, 2145, 2165}] @@
    [kmph \in {4} |->
        {820, 1640}] @@
    [kmph \in {5} |->
        {1025, 2050}]

\* int((km / kmph) * 60), km given in 0.01 km
WalkMinutesRaw(km, kmph) ==
    (km * 60) \div (kmph * 100) - (IF km \in FloatQuotientShort[kmph] THEN 1 ELSE 0)

\* estimate_walk_minutes without max(1, ...)
EstimateWalkMinutesUnclamped(km, kmph) == WalkMinutesRaw(km, kmph)

\* max(1, int((km / kmph) * 60)), km given in 0.01 km
EstimateWalkMinutes(km, kmph) == Max(1, WalkMinutesRaw(km, kmph))

DefaultWalkKmph == 4

-----------------------------------------------------------------------------
(* agents/planner.py *)

AllPlaces(day) == day.morning \o day.afternoon \o day.evening

MakeTransfer(a, b) ==
    LET distance == HaversineKm(PlaceOf(a).lat, PlaceOf(b).lat)
    IN  [from_place |-> a,
         to_place |-> b,
         travel_min |-> EstimateWalkMinutes(distance, DefaultWalkKmph),
         distance_km |-> distance,
         mode |-> "walk"]

\* _calculate_transfers: one Transfer per consecutive pair
CalculateTransfers(places) ==
    [i \in 1..(Len(places) - 1) |-> MakeTransfer(places[i], places[i + 1])]

\* Transfer(...) raises a ValidationError for a field out of bounds
CalculateTransfersRaises(places) ==
    \E i \in 1..(Len(places) - 1) : ~TransferValid(MakeTransfer(places[i], places[i + 1]))

\* dates are hours since an epoch; timedelta.days is the floor of hours / 24
HoursPerDay == 24

\* num_days = (end - start).days + 1
NumDays(pref) == ((pref.end_date - pref.start_date) \div HoursPerDay) + 1

\* the quotient taken as it is, without the pace's minimum and maximum
PerDayQuotient(pace, numPlaces, numDays) == numPlaces \div Max(1, numDays)

PerDay(pace, numPlaces, numDays) ==
    LET q == numPlaces \div Max(1, numDays)
    IN  IF pace = "relaxed" THEN Max(2, Min(4, q))
        ELSE IF pace = "packed" THEN Max(4, Min(6, q))
        ELSE Max(3, Min(5, q))

\* place_idx that is never set back to 0
PlaceIdxNoRestart(i, perDay, numPlaces) == i * perDay

\* value of place_idx when iteration i (0-based) of the day loop starts
RECURSIVE PlaceIdx(_, _, _)
PlaceIdx(i, perDay, numPlaces) ==
    IF i = 0 THEN 0
    ELSE LET next == PlaceIdx(i - 1, perDay, numPlaces) + perDay
         IN  IF next >= numPlaces THEN 0 ELSE next

\* day_places of iteration i
DayPlaces(i, perDay, places) ==
    LET idx == PlaceIdx(i, perDay, Len(places))
        slice == PySlice(places, idx, idx + perDay)
    IN  IF idx + perDay >= Len(places) /\ slice = <<>> THEN <<places[1]>> ELSE slice

BasicDay(i, perDay, places) ==
    LET day_places == DayPlaces(i, perDay, places)
    IN  [date |-> i,
         morning |-> PySlice(day_places, 0, 1),
         lunch |-> NoneVal,
         afternoon |-> IF Len(day_places) > 1 THEN PySlice(day_places, 1, 2) ELSE <<>>,
         dinner |-> NoneVal,
         evening |-> IF Len(day_places) > 2 THEN PyFrom(day_places, 2) ELSE <<>>,
         transfers |-> CalculateTransfers(day_places)]

\* _create_fallback_plan: one generic place per day, no transfers
PlannerFallbackPlan(pref, numDays) ==
    [i \in 1..numDays |->
        [date |-> i - 1,
         morning |-> <<FallbackPlaceName(pref.destination)>>,
         lunch |-> pref.destination \o " local food",
         afternoon |-> <<>>,
         dinner |-> pref.destination \o " dinner",
         evening |-> <<>>,
         transfers |-> <<>>]]

CreateBasicPlan(pref, places) ==
    LET numDays == NumDays(pref)
        perDay == PerDay(pref.pace, Len(places), numDays)
    IN  IF places = <<>> THEN PlannerFallbackPlan(pref, numDays)
        ELSE [i \in 1..numDays |-> BasicDay(i - 1, perDay, places)]

CreateBasicPlanRaises(pref, places) ==
    /\ places # <<>>
    /\ \E i \in 0..(NumDays(pref) - 1) :
          CalculateTransfersRaises(
              DayPlaces(i, PerDay(pref.pace, Len(places), NumDays(pref)), places))

\* _optimize_for_travel_style: relaxed keeps 2 per bucket, packed 3
StyleBucketCap(pace) == IF pace = "relaxed" THEN 2 ELSE 3

OptimizeForTravelStyle(p, pace) ==
    IF pace \in {"relaxed", "packed"}
    THEN [i \in DOMAIN p |->
            [p[i] EXCEPT !.morning = PySlice(@, 0, StyleBucketCap(pace)),
                         !.afternoon = PySlice(@, 0, StyleBucketCap(pace)),
                         !.evening = PySlice(@, 0, StyleBucketCap(pace))]]
    ELSE p

IndoorCategories == {"museum", "gallery", "shopping", "restaurant"}
AdverseConditions == {"rain", "snow", "storm"}

IsIndoor(name) == PlaceOf(name).category \in IndoorCategories

WeatherAdjustedDay(day) ==
    LET indoor_places == SelectSeq(AllPlaces(day), LAMBDA n : IsIndoor(n))
        outdoor_places == SelectSeq(AllPlaces(day), LAMBDA n : ~IsIndoor(n))
    IN  [day EXCEPT
            !.morning = PySlice(indoor_places, 0, 2),
            !.afternoon = IF outdoor_places # <<>> THEN PySlice(outdoor_places, 0, 2)
                          ELSE PySlice(indoor_places, 2, 4),
            !.evening = IF Len(outdoor_places) > 2 THEN PySlice(outdoor_places, 2, 4)
                        ELSE PySlice(indoor_places, 4, 6)]

\* _adjust_for_weather: weather_data[i] belongs to day i
AdjustForWeather(p, weather_data) ==
    [i \in DOMAIN p |->
        IF i <= Len(weather_data) /\ weather_data[i] \in AdverseConditions
        THEN WeatherAdjustedDay(p[i])
        ELSE p[i]]

\* ScanNearest with "distance <= min_distance": the last of several equally
\* near places wins
RECURSIVE ScanNearestLastWins(_, _, _, _, _)
ScanNearestLastWins(current, remaining, i, nearestIdx, minDist) ==
    IF i > Len(remaining) THEN nearestIdx
    ELSE LET distance == HaversineKm(PlaceOf(current).lat, PlaceOf(remaining[i]).lat)
         IN  IF minDist < 0 \/ distance <= minDist
             THEN ScanNearestLastWins(current, remaining, i + 1, i, distance)
             ELSE ScanNearestLastWins(current, remaining, i + 1, nearestIdx, minDist)

\* the inner for loop of _optimize_place_order: scan remaining from position i
\* on; minDist < 0 stands for float('inf')
RECURSIVE ScanNearest(_, _, _, _, _)
ScanNearest(current, remaining, i, nearestIdx, minDist) ==
    IF i > Len(remaining) THEN nearestIdx
    ELSE LET distance == HaversineKm(PlaceOf(current).lat, PlaceOf(remaining[i]).lat)
         IN  IF minDist < 0 \/ distance < minDist
             THEN ScanNearest(current, remaining, i + 1, i, distance)
             ELSE ScanNearest(current, remaining, i + 1, nearestIdx, minDist)

\* the while loop taking remaining[0] every time
GreedyOrderAsGiven(optimized, remaining) == optimized \o remaining

RECURSIVE GreedyOrder(_, _)
GreedyOrder(optimized, remaining) ==
    IF remaining = <<>> THEN optimized
    ELSE LET nearest == ScanNearest(optimized[Len(optimized)], remaining, 1, 1, 0 - 1)
         IN  GreedyOrder(Append(optimized, remaining[nearest]), RemoveAt(remaining, nearest))

\* _optimize_place_order: nearest neighbour from the first place
OptimizePlaceOrder(places) ==
    IF Len(places) <= 1 THEN places
    ELSE GreedyOrder(<<places[1]>>, Tail(places))

\* the re-split with the evening taken one place too late
RoutedDayShortEvening(day) ==
    LET optimized_order == OptimizePlaceOrder(AllPlaces(day))
        m == Len(day.morning)
        a == Len(day.afternoon)
    IN  IF Len(AllPlaces(day)) < 2 THEN day
        ELSE [day EXCEPT !.morning = PySlice(optimized_order, 0, m),
                         !.afternoon = PySlice(optimized_order, m, m + a),
                         !.evening = PyFrom(optimized_order, m + a + 1),
                         !.transfers = CalculateTransfers(optimized_order)]

RoutedDay(day) ==
    LET all_places == AllPlaces(day)
        optimized_order == OptimizePlaceOrder(all_places)
        m == Len(day.morning)
        a == Len(day.afternoon)
    IN  IF Len(all_places) < 2 THEN day
        ELSE [day EXCEPT !.morning = PySlice(optimized_order, 0, m),
                         !.afternoon = PySlice(optimized_order, m, m + a),
                         !.evening = PyFrom(optimized_order, m + a),
                         !.transfers = CalculateTransfers(optimized_order)]

\* _optimize_routes
OptimizeRoutes(p) == [i \in DOMAIN p |-> RoutedDay(p[i])]

OptimizeRoutesRaises(p) ==
    \E i \in DOMAIN p :
        /\ Len(AllPlaces(p[i])) >= 2
        /\ CalculateTransfersRaises(OptimizePlaceOrder(AllPlaces(p[i])))

Near(name, meal) == name \o " nearby " \o meal

\* the break inserted whenever the afternoon has a place, morning or not
MealsDayBreakWithoutMorning(day, pace) ==
    LET withLunch == IF day.morning # <<>>
                     THEN [day EXCEPT !.lunch = Near(day.morning[Len(day.morning)], "lunch")]
                     ELSE day
        withDinner == IF day.afternoon # <<>>
                      THEN [withLunch EXCEPT
                               !.dinner = Near(day.afternoon[Len(day.afternoon)], "dinner")]
                      ELSE withLunch
    IN  IF pace = "relaxed" /\ day.afternoon # <<>>
        THEN [withDinner EXCEPT !.afternoon = <<CafeBreakName>> \o @]
        ELSE withDinner

MealsDay(day, pace) ==
    LET withLunch == IF day.morning # <<>>
                     THEN [day EXCEPT !.lunch = Near(day.morning[Len(day.morning)], "lunch")]
                     ELSE day
        withDinner == IF day.afternoon # <<>>
                      THEN [withLunch EXCEPT
                               !.dinner = Near(day.afternoon[Len(day.afternoon)], "dinner")]
                      ELSE withLunch
    IN  IF pace = "relaxed" /\ day.morning # <<>> /\ day.afternoon # <<>>
        THEN [withDinner EXCEPT !.afternoon = <<CafeBreakName>> \o @]
        ELSE withDinner

\* _add_meals_and_breaks
AddMealsAndBreaks(p, pref) == [i \in DOMAIN p |-> MealsDay(p[i], pref.pace)]

\* the plan handed to _optimize_routes by plan_days
WeatherAdjustedPlan(pref, places, weather) ==
    LET optimized_plan == OptimizeForTravelStyle(CreateBasicPlan(pref, places), pref.pace)
    IN  IF weather # <<>> THEN AdjustForWeather(optimized_plan, weather) ELSE optimized_plan

\* plan_days raises ValueError when one of its stages raises
PlanDaysRaises(pref, places, weather) ==
    \/ CreateBasicPlanRaises(pref, places)
    \/ OptimizeRoutesRaises(WeatherAdjustedPlan(pref, places, weather))

\* the List[DayPlan] plan_days returns when no stage raises
PlanDays(pref, places, weather) ==
    AddMealsAndBreaks(OptimizeRoutes(WeatherAdjustedPlan(pref, places, weather)), pref)

-----------------------------------------------------------------------------
(* agents/critic.py: validate_plans *)

TwoDigits(n) == IF n < 10 THEN "0" \o ToString(n) ELSE ToString(n)

\* date.isoformat() of the day n days after 2024-01-01
IsoDate(n) ==
    IF n < 31 THEN "2024-01-" \o TwoDigits(n + 1) ELSE "2024-02-" \o TwoDigits(n - 30)

MaxWalkMinutes == 120

\* f"Duplicate place: {p.name} on {d.date}"
DuplicateIssue(name, date) == "Duplicate place: " \o name \o " on " \o IsoDate(date)

\* f"Long walking time ({total_walk} min) on {d.date}"
LongWalkIssue(total_walk, date) ==
    "Long walking time (" \o ToString(total_walk) \o " min) on " \o IsoDate(date)

\* SeenAfter that remembers only the place visited last
SeenAfterOnlyLast(seen, name) == {name}

\* seen.add(p.name)
SeenAfter(seen, name) == seen \cup {name}

\* the loop over d.morning + d.afternoon + d.evening of one day
RECURSIVE ScanDayPlaces(_, _, _, _)
ScanDayPlaces(places, date, seen, issues) ==
    IF places = <<>> THEN [seen |-> seen, issues |-> issues]
    ELSE LET name == Head(places)
         IN  ScanDayPlaces(Tail(places), date, SeenAfter(seen, name),
                           IF name \in seen
                           THEN Append(issues, DuplicateIssue(name, date))
                           ELSE issues)

\* WalkTooLong with "total_walk >= 120"
WalkTooLongInclusive(total_walk) == total_walk >= MaxWalkMinutes

\* if total_walk > 120
WalkTooLong(total_walk) == total_walk > MaxWalkMinutes

\* sum(t.travel_min for t in d.transfers)
TotalWalk(day) == SumSeq([i \in DOMAIN day.transfers |-> day.transfers[i].travel_min])

\* the loop over days, from day i on
RECURSIVE ValidateFrom(_, _, _, _)
ValidateFrom(days, i, seen, issues) ==
    IF i > Len(days) THEN issues
    ELSE LET d == days[i]
             scanned == ScanDayPlaces(AllPlaces(d), d.date, seen, issues)
             total_walk == TotalWalk(d)
         IN  ValidateFrom(days, i + 1, scanned.seen,
                          IF WalkTooLong(total_walk)
                          THEN Append(scanned.issues, LongWalkIssue(total_walk, d.date))
                          ELSE scanned.issues)

ValidatePlans(days) == ValidateFrom(days, 1, {}, <<>>)

\* CriticAgent._calculate_overall_score without the four caps
CalculateOverallScoreUncapped(basic, time, efficiency, preference) ==
    Max(100 - (basic * 20 + time * 15 + efficiency * 10 + preference * 10), 0)

\* CriticAgent._calculate_overall_score on the lengths of the four issue
\* lists; scores are in tenths of a point, which round(final_score, 1) keeps
CalculateOverallScore(basic, time, efficiency, preference) ==
    LET basic_deduction == Min(basic * 20, 40)
        time_deduction == Min(time * 15, 30)
        efficiency_deduction == Min(efficiency * 10, 20)
        preference_deduction == Min(preference * 10, 20)
        total_deduction == basic_deduction + time_deduction
                           + efficiency_deduction + preference_deduction
    IN  Max(100 - total_deduction, 0)

\* _review_preference_alignment: for party > 4 the list comprehension calls
\* p.description.lower() before it tests p.description, an AttributeError
\* for a place without description
ReviewRaises(found) == found.party > 4 /\ found.undescribed_place

\* CriticAgent.review_itinerary: the dict of the try body or of the except
ReviewItinerary(found) ==
    IF ReviewRaises(found)
    THEN [overall_score |-> 0, is_acceptable |-> FALSE, error |-> TRUE]
    ELSE LET overall_score == CalculateOverallScore(found.basic, found.time,
                                                    found.efficiency, found.preference)
         IN  [overall_score |-> overall_score,
              is_acceptable |-> overall_score >= 70,
              error |-> FALSE]

-----------------------------------------------------------------------------
(* agents/attractions.py: the stages of AttractionsAgent.select_attractions *)
(* that follow the candidate lookup.  A place dict in the working list is   *)
(* [name, preference_score, weather_note].                                  *)

Budgets == {"low", "mid", "high"}
SelectorInterests == {"art", "park"}

\* interest.lower() in place.get('description', '').lower()
MentionedIn(interest, name) == interest \in Catalogue[name].mentions

\* interest.lower() in place.get('category', '').lower(): over the interests
\* and categories of the model an interest is part of a category only when
\* the two are equal
InCategory(interest, name) == interest = Catalogue[name].category

\* the for loop over preferences.interests
InterestScore(name, interests) ==
    SumSeq([i \in DOMAIN interests |->
               (IF MentionedIn(interests[i], name) THEN 2 ELSE 0)
             + (IF InCategory(interests[i], name) THEN 1 ELSE 0)])

\* place.get('price_level', 0) <= limit raises TypeError for None
BudgetRaises(name, budget_level) ==
    budget_level \in {"low", "mid"} /\ Catalogue[name].price_level = <<>>

\* the if / elif chain on preferences.budget_level
BudgetScore(name, budget_level) ==
    IF budget_level = "low"
    THEN (IF Catalogue[name].price_level[1] <= 1 THEN 1 ELSE 0)
    ELSE IF budget_level = "mid"
         THEN (IF Catalogue[name].price_level[1] <= 2 THEN 1 ELSE 0)
         ELSE IF budget_level = "high" THEN 1 ELSE 0

PreferenceScore(name, pref) ==
    InterestScore(name, pref.interests) + BudgetScore(name, pref.budget_level)

\* KeepScore with "score >= 0"
KeepScoreAny(score) == score >= 0

\* if score >= 1
KeepScore(score) == score >= 1

\* place x put behind every entry whose score is at least its own
RECURSIVE InsertByScore(_, _)
InsertByScore(sorted, x) ==
    IF sorted = <<>> THEN <<x>>
    ELSE IF Head(sorted).preference_score >= x.preference_score
         THEN <<Head(sorted)>> \o InsertByScore(Tail(sorted), x)
         ELSE <<x>> \o sorted

\* filtered.sort(key=preference_score, reverse=True): stable
RECURSIVE SortByScore(_, _)
SortByScore(sorted, rest) ==
    IF rest = <<>> THEN sorted
    ELSE SortByScore(InsertByScore(sorted, Head(rest)), Tail(rest))

FilterByPreferencesRaises(places, pref) ==
    \E i \in DOMAIN places : BudgetRaises(places[i], pref.budget_level)

FilterByPreferences(places, pref) ==
    LET scored == [i \in DOMAIN places |->
                      [name |-> places[i],
                       preference_score |-> PreferenceScore(places[i], pref),
                       weather_note |-> NoneVal]]
    IN  SortByScore(<<>>, SelectSeq(scored, LAMBDA p : KeepScore(p.preference_score)))

\* AttractionsAgent._optimize_for_travel_style
SelectorOptimizeForTravelStyle(places, pace) ==
    IF pace = "relaxed"
    THEN PySlice(SelectSeq(places, LAMBDA p : PlaceOf(p.name).est_stay_min >= 90), 0, 8)
    ELSE IF pace = "packed"
         THEN PySlice(SelectSeq(places, LAMBDA p : PlaceOf(p.name).est_stay_min <= 120), 0, 12)
         ELSE PySlice(places, 0, 10)

\* AttractionsAgent._optimize_for_weather: outdoor places get a note when
\* some forecast day is adverse
OptimizeForWeather(places, weather_data) ==
    LET bad_weather_days == SelectSeq(weather_data, LAMBDA w : w \in AdverseConditions)
    IN  [i \in DOMAIN places |->
            IF bad_weather_days # <<>> /\ ~IsIndoor(places[i].name)
            THEN [places[i] EXCEPT !.weather_note = "weather may be poor"]
            ELSE places[i]]

\* schemas.Place: est_stay_min ge=15 le=480, price_level None or ge=1 le=4
PlaceFieldsValid(est_stay_min, price_level) ==
    /\ 15 <= est_stay_min /\ est_stay_min <= 480
    /\ price_level = <<>> \/ (1 <= price_level[1] /\ price_level[1] <= 4)

\* the categories dict of _create_final_selection: keys in insertion order
RECURSIVE CategoryOrder(_, _)
CategoryOrder(places, cats) ==
    IF places = <<>> THEN cats
    ELSE LET cat == PlaceOf(Head(places).name).category
         IN  CategoryOrder(Tail(places),
                           IF \E i \in DOMAIN cats : cats[i] = cat THEN cats
                           ELSE Append(cats, cat))

\* categories[cat]
CategoryPlaces(places, cat) ==
    SelectSeq(places, LAMBDA p : PlaceOf(p.name).category = cat)

\* no limit per category
MaxPerCategoryWhole(places) == Len(places)

MaxPerCategory(places) ==
    LET categories == CategoryOrder(places, <<>>)
    IN  IF categories # <<>> THEN Max(1, Len(places) \div Len(categories)) ELSE 3

\* the dicts handed to Place(**{...}), category by category
RECURSIVE SelectedByCategory(_, _, _)
SelectedByCategory(places, cats, max_per_category) ==
    IF cats = <<>> THEN <<>>
    ELSE PySlice(CategoryPlaces(places, Head(cats)), 0, max_per_category)
         \o SelectedByCategory(places, Tail(cats), max_per_category)

FinalCandidates(places) ==
    SelectedByCategory(places, CategoryOrder(places, <<>>), MaxPerCategory(places))

\* a Place(...) of the final loop is rejected by the schema
CreateFinalSelectionRaises(places) ==
    \E i \in DOMAIN FinalCandidates(places) :
        LET place == PlaceOf(FinalCandidates(places)[i].name)
        IN  ~PlaceFieldsValid(place.est_stay_min, place.price_level)

\* final_places[:len(places)], as Place objects (referred to by name)
CreateFinalSelection(places) ==
    LET final_places == [i \in DOMAIN FinalCandidates(places) |->
                            FinalCandidates(places)[i].name]
    IN  PySlice(final_places, 0, Len(places))

\* the try body of select_attractions after the candidate lookup
SelectAttractionsRaises(base_places, pref, weather) ==
    \/ FilterByPreferencesRaises(base_places, pref)
    \/ CreateFinalSelectionRaises(
           OptimizeForWeather(
               SelectorOptimizeForTravelStyle(FilterByPreferences(base_places, pref), pref.pace),
               weather))

SelectAttractions(base_places, pref, weather) ==
    CreateFinalSelection(
        IF weather # <<>>
        THEN OptimizeForWeather(
                 SelectorOptimizeForTravelStyle(FilterByPreferences(base_places, pref), pref.pace),
                 weather)
        ELSE SelectorOptimizeForTravelStyle(FilterByPreferences(base_places, pref), pref.pace))

-----------------------------------------------------------------------------
(* schemas.py: what the request and response models accept *)

RECURSIVE Repeat(_, _)
Repeat(s, n) == IF n = 0 THEN "" ELSE s \o Repeat(s, n - 1)

\* a single interest of 480 characters: the schema limits the number of
\* interests, not their length
LongInterest == Repeat("interest ", 53) \o "xyz"

\* the text of a start_date / end_date: a date, with a time when it is not
\* midnight
DateText(h) ==
    IsoDate(h \div HoursPerDay)
        \o (IF h % HoursPerDay = 0 THEN "" ELSE "T" \o TwoDigits(h % HoursPerDay) \o ":00")

\* UserPreferences(...): destination 1..100 characters, 1..20 interests,
\* party 1..20, validate_date_format rejects a text datetime.fromisoformat
\* cannot read (end_date_iso is FALSE for such an end_date), validate_end_date
\* rejects start >= end, pace and budget_level patterns
UserPreferencesValid(p) ==
    /\ 1 <= Len(p.destination) /\ Len(p.destination) <= 100
    /\ 1 <= Len(p.interests) /\ Len(p.interests) <= 20
    /\ 1 <= p.party /\ p.party <= 20
    /\ p.end_date_iso
    /\ ~(p.start_date >= p.end_date)
    /\ p.pace \in Paces
    /\ p.budget_level \in Budgets

\* Tips(...): max_length of the three lists
TipsValid(tips) ==
    /\ Len(tips.etiquette) <= 10
    /\ Len(tips.packing) <= 15
    /\ Len(tips.safety) <= 10

\* Itinerary(...): summary max_length=500, days min_length=1 max_length=30
ItineraryValid(summary, days, tips) ==
    /\ Len(summary) <= 500
    /\ 1 <= Len(days) /\ Len(days) <= 30
    /\ TipsValid(tips)

\* PlanResponse(...): mode is a required field; mode_arg is <<>> when the
\* call passes no mode
PlanResponseValid(mode_arg) == mode_arg # <<>>

NoTips == [etiquette |-> <<>>, packing |-> <<>>, safety |-> <<>>]

NoItinerary == [summary |-> "", days |-> <<>>, tips |-> NoTips]

\* an HTTP error response
ErrorResponse(status) == [status |-> status, mode |-> "", itinerary |-> NoItinerary]

\* the outcome of a call that raised
Raised == [raised |-> TRUE, resp |-> ErrorResponse(0)]

\* PlanResponse(itinerary=Itinerary(summary=..., days=..., tips=...), mode=...)
BuildResponse(summary, days, tips, mode_arg) ==
    IF ItineraryValid(summary, days, tips) /\ PlanResponseValid(mode_arg)
    THEN [raised |-> FALSE,
          resp |-> [status |-> 200, mode |-> mode_arg[1],
                    itinerary |-> [summary |-> summary, days |-> days, tips |-> tips]]]
    ELSE Raised

\* ', '.join(items)
RECURSIVE JoinWith(_, _)
JoinWith(items, glue) ==
    IF items = <<>> THEN ""
    ELSE IF Len(items) = 1 THEN items[1]
         ELSE items[1] \o glue \o JoinWith(Tail(items), glue)

\* f"{destination} {start_date}~{end_date}, <interests>: {', '.join(interests) or <general>}"
PlanSummary(pref) ==
    pref.destination \o " " \o DateText(pref.start_date) \o "~" \o DateText(pref.end_date)
        \o ", int: "
        \o (IF JoinWith(pref.interests, ", ") = "" THEN "--" ELSE JoinWith(pref.interests, ", "))

-----------------------------------------------------------------------------
(* main.py: request validation *)

\* strings s with len(s.strip()) == 0
BlankStrings == {"", " "}

\* validate_preferences without the 30-day limit
ValidatePreferencesRejectsNoLimit(pref) ==
    \/ pref.destination \in BlankStrings
    \/ Len(pref.interests) = 0
    \/ pref.start_date >= pref.end_date

\* validate_preferences raises HTTPException(400)
ValidatePreferencesRejects(pref) ==
    \/ pref.destination \in BlankStrings
    \/ Len(pref.interests) = 0
    \/ pref.start_date >= pref.end_date
    \/ (pref.end_date - pref.start_date) \div HoursPerDay > 30

\* validate_api_keys_for_mode raises HTTPException(400)
ValidateApiKeysRejects(mode, openai_key) == mode = "crew" /\ ~openai_key

-----------------------------------------------------------------------------
(* orchestrators/crew.py: plan_with_crew.  e is the env of the request:    *)
(* e.kickoff says whether crew.kickoff() raises, e.crew_days how many      *)
(* DayPlans crew.py assembles (from the crew's JSON or from                *)
(* _create_basic_itinerary).                                               *)

\* the modules that bind a module-level logger; crew.py uses the name
\* logger in every except block and binds none
ModulesWithLogger == {"main", "directions", "places", "weather", "wiki"}

LoggerDefined(module) == module \in ModulesWithLogger

\* the DayPlans of _create_day_plans_from_crew_result: one per crew day
CrewDays(n) ==
    [i \in 1..n |-> [date |-> i - 1, morning |-> <<>>, lunch |-> NoneVal,
                     afternoon |-> <<>>, dinner |-> NoneVal, evening |-> <<>>,
                     transfers |-> <<>>]]

CrewTips ==
    [etiquette |-> <<"respect local culture and customs">>,
     packing |-> <<"comfortable shoes", "power bank">>,
     safety |-> <<"follow the usual precautions">>]

MinimalTips ==
    [etiquette |-> <<"basic travel manners">>,
     packing |-> <<"travel essentials">>,
     safety |-> <<"travel safely">>]

\* PlanResponse(itinerary=Itinerary(summary, days, tips)) as crew.py builds
\* it: without mode
CrewResponse(pref, days) == BuildResponse(PlanSummary(pref), days, CrewTips, <<>>)

\* _fallback_planning: the except block logs, then builds an itinerary with
\* days=[]
CrewFallbackPlanning(pref, e) ==
    LET first == CrewResponse(pref, CrewDays(e.crew_days))
    IN  IF ~first.raised THEN first
        ELSE IF ~LoggerDefined("crew") THEN Raised
             ELSE BuildResponse(pref.destination \o " plan unavailable", <<>>,
                                MinimalTips, <<>>)

\* _process_crew_result
ProcessCrewResult(pref, e) ==
    LET built == CrewResponse(pref, CrewDays(e.crew_days))
    IN  IF ~built.raised THEN built
        ELSE IF ~LoggerDefined("crew") THEN Raised
             ELSE CrewFallbackPlanning(pref, e)

\* EnhancedCrewOrchestrator.plan_with_crew
PlanWithCrew(pref, e) ==
    LET tried == IF e.kickoff = "raises" THEN Raised ELSE ProcessCrewResult(pref, e)
    IN  IF ~tried.raised THEN tried
        ELSE IF ~LoggerDefined("crew") THEN Raised
             ELSE CrewFallbackPlanning(pref, e)

-----------------------------------------------------------------------------
(* graph.py: plan_itinerary, awaited by the handler on the running loop *)

\* create_travel_plan is a coroutine: its callees run on the running loop
HandlerLoopRunning == TRUE

\* the sync wrappers get_candidate_places and plan_days: run_until_complete
\* raises RuntimeError on a running loop, and so does the new loop of the
\* except branch
SyncWrapperRaises(loop_running) == loop_running

\* the UserPreferences the select_attractions wrapper builds
WrapperPreferences(destination, interests) ==
    [destination |-> destination, start_date |-> 0, end_date |-> 0,
     interests |-> interests, pace |-> "balanced", budget_level |-> "mid",
     party |-> 2, end_date_iso |-> TRUE]

\* select_attractions(pref.destination, pref.interests) raises
GraphSelectRaises(pref, e) ==
    \/ ~UserPreferencesValid(WrapperPreferences(pref.destination, pref.interests))
    \/ SyncWrapperRaises(HandlerLoopRunning)
    \/ SelectAttractionsRaises(e.candidates,
                               WrapperPreferences(pref.destination, pref.interests), <<>>)

GraphPlaces(pref, e) ==
    SelectAttractions(e.candidates, WrapperPreferences(pref.destination, pref.interests), <<>>)

\* get_local_tips
LocalTips ==
    [etiquette |-> <<"respect restaurant reservations", "check dress codes">>,
     packing |-> <<"comfortable shoes", "power bank", "local sim">>,
     safety |-> <<"beware of pickpockets", "avoid dark alleys">>]

\* summary, then summary += "\n<notes>: " + "; ".join(issues) if issues
GraphSummary(pref, issues) ==
    PlanSummary(pref)
        \o (IF issues # <<>> THEN " note: " \o JoinWith(issues, "; ") ELSE "")

\* itinerary = Itinerary(summary=summary, days=days, tips=tips); without
\* summary and days when the constructor raises
GraphItinerary(pref, days, issues) ==
    IF ItineraryValid(GraphSummary(pref, issues), days, LocalTips)
    THEN [raised |-> FALSE, summary |-> GraphSummary(pref, issues), days |-> days]
    ELSE [raised |-> TRUE, summary |-> "", days |-> <<>>]

PlanItinerary(pref, e) ==
    IF ~e.research_ok THEN Raised
    ELSE IF GraphSelectRaises(pref, e) THEN Raised
    ELSE IF GraphPlaces(pref, e) = <<>> THEN Raised
    ELSE IF SyncWrapperRaises(HandlerLoopRunning)
            \/ PlanDaysRaises(pref, GraphPlaces(pref, e), <<>>) THEN Raised
    ELSE LET days == PlanDays(pref, GraphPlaces(pref, e), <<>>)
             issues == ValidatePlans(days)
         IN  BuildResponse(GraphSummary(pref, issues), days, LocalTips, <<>>)

-----------------------------------------------------------------------------
(* main.py: _create_fallback_plan and the tail of create_travel_plan *)

MainFallbackTips ==
    [etiquette |-> <<"respect local culture and customs", "keep basic travel manners">>,
     packing |-> <<"comfortable shoes", "power bank", "local sim", "passport and id">>,
     safety |-> <<"beware of pickpockets", "avoid dark alleys", "keep emergency contacts">>]

\* MainFallbackDay with morning=[]
MainFallbackDayNoPlace(pref, i) ==
    [date |-> i - 1,
     morning |-> <<>>,
     lunch |-> pref.destination \o " local food",
     afternoon |-> <<>>,
     dinner |-> pref.destination \o " dinner",
     evening |-> <<>>,
     transfers |-> <<>>]

MainFallbackDay(pref, i) ==
    [date |-> i - 1,
     morning |-> <<FallbackPlaceName(pref.destination)>>,
     lunch |-> pref.destination \o " local food",
     afternoon |-> <<>>,
     dinner |-> pref.destination \o " dinner",
     evening |-> <<>>,
     transfers |-> <<>>]

\* MainFallbackDays with "for i in range(num_days - 1)"
MainFallbackDaysOneShort(pref) ==
    [i \in 1..(NumDays(pref) - 1) |-> MainFallbackDay(pref, i)]

\* for i in range(num_days): days.append(DayPlan(...))
MainFallbackDays(pref) == [i \in 1..NumDays(pref) |-> MainFallbackDay(pref, i)]

\* _create_fallback_plan: the except block logs and builds the emergency
\* response, whose itinerary has days=[]
CreateFallbackPlan(pref) ==
    LET first == BuildResponse(PlanSummary(pref), MainFallbackDays(pref),
                               MainFallbackTips, <<"fallback">>)
    IN  IF ~first.raised THEN first
        ELSE IF ~LoggerDefined("main") THEN Raised
             ELSE BuildResponse(pref.destination \o " std plan", <<>>, MinimalTips,
                                <<"emergency_fallback">>)

\* lines 262-290 of create_travel_plan: a result without days is replaced by
\* the fallback plan; the two enrichment steps catch their own errors
AfterPlanning(result, pref) ==
    IF result.resp.itinerary.days = <<>> THEN CreateFallbackPlan(pref) ELSE result

-----------------------------------------------------------------------------
(* utils/cache.py: CacheManager.  A cache entry is the dict cache_data with  *)
(* its key; created_at and expires_at are clock readings in seconds.  The   *)
(* file of a key is <<>> when it does not exist, else <<d>> with d what     *)
(* json.load gives back, CorruptFile after a failed json.dump.              *)

\* enough keys to overflow the memory cache
CacheKeys == 1..(MaxMemoryItems + 1)

\* data handed to set: a str, a tuple, an object json cannot encode
CacheData == {"text", "tuple", "object"}

TtlSeconds == {1, 2}

NoFile == <<>>

\* the file json.dump left behind when it raised: json.load cannot read it
CorruptFile == <<[corrupt |-> TRUE]>>

\* json.load(f) succeeds
Readable(file) == file # NoFile /\ "corrupt" \notin DOMAIN file[1]

\* json.dump(cache_data, f) raises TypeError for an object without encoding
JsonSerializable(data) == data # "object"

\* json.load of what json.dump wrote: a tuple comes back as a list
JsonRoundTrip(data) == IF data = "tuple" THEN "list" ELSE data

\* _is_cache_valid: datetime.now() < expires_at
IsCacheValid(cache_data, clock) == clock < cache_data.expires_at

\* cache_key in self.memory_cache
InMemory(mem, key) == \E i \in DOMAIN mem : mem[i].key = key

\* self.memory_cache[cache_key]
MemoryEntry(mem, key) == mem[CHOOSE i \in DOMAIN mem : mem[i].key = key]

\* del self.memory_cache[cache_key]
MemoryWithout(mem, key) == SelectSeq(mem, LAMBDA e : e.key # key)

\* min(self.memory_cache.keys(), key=created_at): the first of the oldest
OldestIndex(mem) ==
    CHOOSE i \in DOMAIN mem :
        /\ \A j \in DOMAIN mem : mem[i].created_at <= mem[j].created_at
        /\ \A j \in 1..(i - 1) : mem[j].created_at > mem[i].created_at

\* _add_to_memory_cache: evict the oldest entry of a full cache, store the
\* entry (a dict assignment keeps the place of a key already present), add 1
AddToMemoryCache(mem, size, entry) ==
    LET full == Len(mem) >= MaxMemoryItems
        kept == IF full THEN RemoveAt(mem, OldestIndex(mem)) ELSE mem
    IN  [memory_cache |->
             IF InMemory(kept, entry.key)
             THEN [i \in DOMAIN kept |-> IF kept[i].key = entry.key THEN entry ELSE kept[i]]
             ELSE Append(kept, entry),
         memory_cache_size |-> (IF full THEN size - 1 ELSE size) + 1]

\* _cleanup_expired_cache: unreadable and expired files are unlinked
CleanupExpiredCache(files, clock) ==
    [k \in DOMAIN files |->
        IF Readable(files[k]) /\ IsCacheValid(files[k][1], clock)
        THEN files[k] ELSE NoFile]

-----------------------------------------------------------------------------
(* The components at rest: each specification below runs one component and *)
(* leaves the others in these states.                                      *)

PlannerIdle ==
    /\ plan_pc = "idle"
    /\ plan_in = [pref |-> [destination |-> "", start_date |-> 0, end_date |-> 0,
                           pace |-> "balanced"],
                  places |-> <<>>, weather |-> <<>>]
    /\ plan = <<>>
    /\ plan_prev = <<>>

ValidatorIdle ==
    /\ val_pc = "idle"
    /\ val_days = <<>>
    /\ val_issues = <<>>
    /\ val_itinerary = [raised |-> TRUE, summary |-> "", days |-> <<>>]

SelectorIdle ==
    /\ sel_pc = "idle"
    /\ sel_in = [candidates |-> <<>>,
                 pref |-> [interests |-> <<>>, budget_level |-> "mid", pace |-> "balanced"],
                 weather |-> <<>>]
    /\ sel_places = <<>>
    /\ sel_out = <<>>

HandlerIdle ==
    /\ pc = "idle"
    /\ req = [mode |-> "graph",
              pref |-> [destination |-> "", start_date |-> 0, end_date |-> 0,
                        interests |-> <<>>, pace |-> "balanced", budget_level |-> "mid",
                        party |-> 2, end_date_iso |-> TRUE]]
    /\ env = [openai_key |-> FALSE, kickoff |-> "raises", crew_days |-> 0,
              research_ok |-> FALSE, candidates |-> <<>>]
    /\ resp = ErrorResponse(0)
    /\ crew_failed = FALSE
    /\ graph_failed = FALSE

WalkIdle ==
    /\ walk_pc = "idle"
    /\ walk_in = [km |-> 0, kmph |-> DefaultWalkKmph]
    /\ walk_out = 0

CriticIdle ==
    /\ crit_pc = "idle"
    /\ crit_in = [basic |-> 0, time |-> 0, efficiency |-> 0, preference |-> 0,
                  party |-> 2, undescribed_place |-> FALSE]
    /\ crit_out = ReviewItinerary(crit_in)

\* CacheManager.__init__ on a new cache_dir: nothing cached, clock at 0
CacheIdle ==
    /\ memory_cache = <<>>
    /\ memory_cache_size = 0
    /\ cache_files = [k \in CacheKeys |-> NoFile]
    /\ total_requests = 0
    /\ now = 0
    /\ cache_ret = [op |-> "init", key |-> 0, value |-> NoneVal]
    /\ last_set = [k \in CacheKeys |-> <<>>]
    /\ cache_calls = 0

-----------------------------------------------------------------------------
(* plan_days, one step per numbered stage of the method *)

PlannerInputs ==
    {[pref |-> [destination |-> d, start_date |-> 0,
                 end_date |-> (n - 1) * HoursPerDay, pace |-> pace],
      places |-> ps,
      weather |-> w] :
        d \in PlannerDestinations, n \in 1..MaxDays, pace \in Paces,
        ps \in InjectiveSeqs(PlaceNames, MaxPlaces),
        w \in UNION {[1..k -> WeatherConditions] : k \in 0..MaxDays}}

PlannerInit ==
    /\ plan_pc = "basic"
    /\ plan_in \in {x \in PlannerInputs : Len(x.weather) <= NumDays(x.pref)}
    /\ plan = <<>>
    /\ plan_prev = <<>>
    /\ ValidatorIdle /\ SelectorIdle /\ HandlerIdle /\ WalkIdle /\ CriticIdle /\ CacheIdle

\* stage 1: basic_plan = self._create_basic_plan(preferences, places)
PlanBasic ==
    /\ plan_pc = "basic"
    /\ IF CreateBasicPlanRaises(plan_in.pref, plan_in.places)
       THEN plan_pc' = "error" /\ UNCHANGED plan
       ELSE plan_pc' = "style" /\ plan' = CreateBasicPlan(plan_in.pref, plan_in.places)
    /\ UNCHANGED <<plan_in, plan_prev>>
    /\ UNCHANGED <<validatorVars, selectorVars, handlerVars, walkVars, criticVars, cacheVars>>

\* stage 2: optimized_plan = self._optimize_for_travel_style(...)
PlanStyle ==
    /\ plan_pc = "style"
    /\ plan' = OptimizeForTravelStyle(plan, plan_in.pref.pace)
    /\ plan_pc' = "weather"
    /\ UNCHANGED <<plan_in, plan_prev>>
    /\ UNCHANGED <<validatorVars, selectorVars, handlerVars, walkVars, criticVars, cacheVars>>

\* stage 3: weather adjustment, skipped without weather data
PlanWeather ==
    /\ plan_pc = "weather"
    /\ plan' = IF plan_in.weather # <<>> THEN AdjustForWeather(plan, plan_in.weather) ELSE plan
    /\ plan_pc' = "routes"
    /\ UNCHANGED <<plan_in, plan_prev>>
    /\ UNCHANGED <<validatorVars, selectorVars, handlerVars, walkVars, criticVars, cacheVars>>

\* stage 4: final_plan = self._optimize_routes(weather_adjusted)
PlanRoutes ==
    /\ plan_pc = "routes"
    /\ IF OptimizeRoutesRaises(plan)
       THEN plan_pc' = "error" /\ UNCHANGED plan
       ELSE plan_pc' = "meals" /\ plan' = OptimizeRoutes(plan)
    /\ UNCHANGED <<plan_in, plan_prev>>
    /\ UNCHANGED <<validatorVars, selectorVars, handlerVars, walkVars, criticVars, cacheVars>>

\* stage 5: complete_plan = self._add_meals_and_breaks(...); return
PlanMeals ==
    /\ plan_pc = "meals"
    /\ plan' = AddMealsAndBreaks(plan, plan_in.pref)
    /\ plan_pc' = "done"
    /\ UNCHANGED <<plan_in, plan_prev>>
    /\ UNCHANGED <<validatorVars, selectorVars, handlerVars, walkVars, criticVars, cacheVars>>

\* plan_days is called a second time with the same arguments
PlanAgain ==
    /\ plan_pc = "done"
    /\ plan_prev = <<>>
    /\ plan_prev' = <<plan>>
    /\ plan' = <<>>
    /\ plan_pc' = "basic"
    /\ UNCHANGED plan_in
    /\ UNCHANGED <<validatorVars, selectorVars, handlerVars, walkVars, criticVars, cacheVars>>

PlannerNext ==
    \/ PlanBasic
    \/ PlanStyle
    \/ PlanWeather
    \/ PlanRoutes
    \/ PlanMeals
    \/ PlanAgain

PlannerSpec == PlannerInit /\ [][PlannerNext]_vars

-----------------------------------------------------------------------------
(* validate_plans applied to bounded DayPlan lists *)

\* the travel_min lists of a day's transfers: sums 0, 100, 120 and 150
ValidatorWalks == {<<>>, <<50, 50>>, <<60, 60>>, <<50, 50, 50>>}

\* Place.name may hold up to 200 characters
LongPlaceName == Repeat("x", 200)

ValidatorNames == {"p1", LongPlaceName}

\* at most one place in the morning and one in the afternoon
ValidatorBuckets == {<<>>} \cup {<<n>> : n \in ValidatorNames}

ValidatorDay(date, morning, afternoon, walks) ==
    [date |-> date, morning |-> morning, lunch |-> NoneVal, afternoon |-> afternoon,
     dinner |-> NoneVal, evening |-> <<>>,
     transfers |-> [i \in DOMAIN walks |->
                       [from_place |-> "p1", to_place |-> "p2", travel_min |-> walks[i],
                        distance_km |-> 0, mode |-> "walk"]]]

\* a day is chosen by its morning, its afternoon and its walks
ValidatorDayChoices == ValidatorBuckets \X ValidatorBuckets \X ValidatorWalks

\* the DayPlan list of the chosen days, dated consecutively
ValidatorDayList(c) ==
    [i \in DOMAIN c |-> ValidatorDay(i - 1, c[i][1], c[i][2], c[i][3])]

ValidatorInit ==
    /\ val_pc = "call"
    /\ \E k \in 0..MaxValidatedDays : \E c \in [1..k -> ValidatorDayChoices] :
           val_days = ValidatorDayList(c)
    /\ val_issues = <<>>
    /\ val_itinerary = [raised |-> TRUE, summary |-> "", days |-> <<>>]
    /\ PlannerIdle /\ SelectorIdle /\ HandlerIdle /\ WalkIdle /\ CriticIdle /\ CacheIdle

\* issues = validate_plans(days)
Validate ==
    /\ val_pc = "call"
    /\ val_issues' = ValidatePlans(val_days)
    /\ val_pc' = "done"
    /\ UNCHANGED <<val_days, val_itinerary>>
    /\ UNCHANGED <<plannerVars, selectorVars, handlerVars, walkVars, criticVars, cacheVars>>

\* the preferences of the trip whose days are validated
ValidatorPreferences ==
    [destination |-> "Paris", start_date |-> 0, end_date |-> HoursPerDay,
     interests |-> <<"art">>]

\* plan_itinerary after validate_plans: the summary with the issues appended,
\* the tips, Itinerary(summary=summary, days=days, tips=tips)
BuildItinerary ==
    /\ val_pc = "done"
    /\ val_itinerary' = GraphItinerary(ValidatorPreferences, val_days, val_issues)
    /\ val_pc' = "built"
    /\ UNCHANGED <<val_days, val_issues>>
    /\ UNCHANGED <<plannerVars, selectorVars, handlerVars, walkVars, criticVars, cacheVars>>

ValidatorNext ==
    \/ Validate
    \/ BuildItinerary

ValidatorSpec == ValidatorInit /\ [][ValidatorNext]_vars

-----------------------------------------------------------------------------
(* select_attractions, one step per numbered stage after the lookup *)

SelectorInterestLists == {<<"art">>, <<"park">>, <<"art", "park">>, <<"park", "art">>}

SelectorInputs ==
    {[candidates |-> c,
      pref |-> [interests |-> ints, budget_level |-> b, pace |-> p],
      weather |-> w] :
        c \in InjectiveSeqs(PlaceNames, MaxCandidates),
        ints \in SelectorInterestLists, b \in Budgets, p \in Paces,
        w \in {<<>>, <<"clear">>, <<"rain">>}}

SelectorInit ==
    /\ sel_pc = "filter"
    /\ sel_in \in SelectorInputs
    /\ sel_places = <<>>
    /\ sel_out = <<>>
    /\ PlannerIdle /\ ValidatorIdle /\ HandlerIdle /\ WalkIdle /\ CriticIdle /\ CacheIdle

\* stage 2: filtered_places = self._filter_by_preferences(...)
SelectFilter ==
    /\ sel_pc = "filter"
    /\ IF FilterByPreferencesRaises(sel_in.candidates, sel_in.pref)
       THEN sel_pc' = "error" /\ UNCHANGED sel_places
       ELSE /\ sel_pc' = "style"
            /\ sel_places' = FilterByPreferences(sel_in.candidates, sel_in.pref)
    /\ UNCHANGED <<sel_in, sel_out>>
    /\ UNCHANGED <<plannerVars, validatorVars, handlerVars, walkVars, criticVars, cacheVars>>

\* stage 3: optimized_places = self._optimize_for_travel_style(...)
SelectStyle ==
    /\ sel_pc = "style"
    /\ sel_places' = SelectorOptimizeForTravelStyle(sel_places, sel_in.pref.pace)
    /\ sel_pc' = "weather"
    /\ UNCHANGED <<sel_in, sel_out>>
    /\ UNCHANGED <<plannerVars, validatorVars, handlerVars, walkVars, criticVars, cacheVars>>

\* stage 4: weather notes, skipped without weather data
SelectWeather ==
    /\ sel_pc = "weather"
    /\ sel_places' = IF sel_in.weather # <<>>
                     THEN OptimizeForWeather(sel_places, sel_in.weather)
                     ELSE sel_places
    /\ sel_pc' = "final"
    /\ UNCHANGED <<sel_in, sel_out>>
    /\ UNCHANGED <<plannerVars, validatorVars, handlerVars, walkVars, criticVars, cacheVars>>

\* stage 5: final_places = self._create_final_selection(...); return
SelectFinal ==
    /\ sel_pc = "final"
    /\ IF CreateFinalSelectionRaises(sel_places)
       THEN sel_pc' = "error" /\ UNCHANGED sel_out
       ELSE sel_pc' = "done" /\ sel_out' = CreateFinalSelection(sel_places)
    /\ UNCHANGED <<sel_in, sel_places>>
    /\ UNCHANGED <<plannerVars, validatorVars, handlerVars, walkVars, criticVars, cacheVars>>

SelectorNext ==
    \/ SelectFilter
    \/ SelectStyle
    \/ SelectWeather
    \/ SelectFinal

SelectorSpec == SelectorInit /\ [][SelectorNext]_vars

-----------------------------------------------------------------------------
(* POST /plan: create_travel_plan with its dependencies *)

RequestDestinations == {"Paris", "", " "}

\* end_date in hours after start_date = 0: the same instant, later the same
\* day, 1, 2, 30 and 31 days later
RequestEndDates == {0, 12, 24, 48, 720, 744}

RequestInterests == {<<>>, <<"art">>, <<"art", "park">>, <<LongInterest>>}

\* bodies whose party and date texts are in order
PlainRequests ==
    {[mode |-> m,
      pref |-> [destination |-> d, start_date |-> 0, end_date |-> e,
                interests |-> ints, pace |-> "balanced", budget_level |-> "mid",
                party |-> 2, end_date_iso |-> TRUE]] :
        m \in {"crew", "graph"}, d \in RequestDestinations,
        e \in RequestEndDates, ints \in RequestInterests}

\* a two-day request for Paris with one field out of the schema's range: the
\* party, an end_date that is no ISO date, a destination of 101 characters,
\* a list of 21 interests
OffSchemaRequests ==
    LET base == [destination |-> "Paris", start_date |-> 0, end_date |-> 24,
                 interests |-> <<"art">>, pace |-> "balanced", budget_level |-> "mid",
                 party |-> 2, end_date_iso |-> TRUE]
    IN  {[mode |-> m, pref |-> p] :
            m \in {"crew", "graph"},
            p \in {[base EXCEPT !.party = 0], [base EXCEPT !.party = 21],
                   [base EXCEPT !.end_date_iso = FALSE],
                   [base EXCEPT !.destination = Repeat("x", 101)],
                   [base EXCEPT !.interests = [i \in 1..21 |-> "art"]]}}

Requests == PlainRequests \cup OffSchemaRequests

Environments ==
    {[openai_key |-> k, kickoff |-> ko, crew_days |-> n,
      research_ok |-> r, candidates |-> c] :
        k \in BOOLEAN, ko \in {"raises", "returns"}, n \in 0..MaxCrewDays,
        r \in BOOLEAN, c \in {<<>>, <<"p1", "p3", "p4">>}}

Init ==
    /\ pc = "received"
    /\ req \in Requests
    /\ env \in Environments
    /\ resp = ErrorResponse(0)
    /\ crew_failed = FALSE
    /\ graph_failed = FALSE
    /\ PlannerIdle /\ ValidatorIdle /\ SelectorIdle /\ WalkIdle /\ CriticIdle /\ CacheIdle

\* the handler returns or raises: the response goes out
Respond(r) ==
    /\ resp' = r
    /\ pc' = "done"

\* FastAPI builds the UserPreferences body: 422 when the schema rejects it
ParseBody ==
    /\ pc = "received"
    /\ IF UserPreferencesValid(req.pref)
       THEN pc' = "validate" /\ UNCHANGED resp
       ELSE Respond(ErrorResponse(422))
    /\ UNCHANGED <<req, env, crew_failed, graph_failed>>
    /\ UNCHANGED <<plannerVars, validatorVars, selectorVars, walkVars, criticVars, cacheVars>>

\* Depends(validate_preferences)
ValidatePreferences ==
    /\ pc = "validate"
    /\ IF ValidatePreferencesRejects(req.pref)
       THEN Respond(ErrorResponse(400))
       ELSE pc' = "keys" /\ UNCHANGED resp
    /\ UNCHANGED <<req, env, crew_failed, graph_failed>>
    /\ UNCHANGED <<plannerVars, validatorVars, selectorVars, walkVars, criticVars, cacheVars>>

\* await validate_api_keys_for_mode(mode); except HTTPException: raise
ValidateApiKeys ==
    /\ pc = "keys"
    /\ IF ValidateApiKeysRejects(req.mode, env.openai_key)
       THEN Respond(ErrorResponse(400))
       ELSE pc' = req.mode /\ UNCHANGED resp
    /\ UNCHANGED <<req, env, crew_failed, graph_failed>>
    /\ UNCHANGED <<plannerVars, validatorVars, selectorVars, walkVars, criticVars, cacheVars>>

\* the rest of the try body once a strategy returned result: lines 262-290
Finish(result) ==
    IF AfterPlanning(result, req.pref).raised
    THEN pc' = "final" /\ UNCHANGED resp
    ELSE Respond(AfterPlanning(result, req.pref).resp)

\* mode == "crew": result = await plan_with_crew(pref); an exception leads
\* to plan_itinerary
PlanCrew ==
    /\ pc = "crew"
    /\ IF PlanWithCrew(req.pref, env).raised
       THEN crew_failed' = TRUE /\ pc' = "graph" /\ UNCHANGED resp
       ELSE Finish(PlanWithCrew(req.pref, env)) /\ UNCHANGED crew_failed
    /\ UNCHANGED <<req, env, graph_failed>>
    /\ UNCHANGED <<plannerVars, validatorVars, selectorVars, walkVars, criticVars, cacheVars>>

\* result = await plan_itinerary(pref), in graph mode or after the crew
\* failed; an exception leads to the outer except block
PlanGraph ==
    /\ pc = "graph"
    /\ IF PlanItinerary(req.pref, env).raised
       THEN graph_failed' = TRUE /\ pc' = "final" /\ UNCHANGED resp
       ELSE Finish(PlanItinerary(req.pref, env)) /\ UNCHANGED graph_failed
    /\ UNCHANGED <<req, env, crew_failed>>
    /\ UNCHANGED <<plannerVars, validatorVars, selectorVars, walkVars, criticVars, cacheVars>>

\* except Exception: the final fallback, HTTP 500 when it raises too
FinalFallback ==
    /\ pc = "final"
    /\ IF CreateFallbackPlan(req.pref).raised
       THEN Respond(ErrorResponse(500))
       ELSE Respond(CreateFallbackPlan(req.pref).resp)
    /\ UNCHANGED <<req, env, crew_failed, graph_failed>>
    /\ UNCHANGED <<plannerVars, validatorVars, selectorVars, walkVars, criticVars, cacheVars>>

Next ==
    \/ ParseBody
    \/ ValidatePreferences
    \/ ValidateApiKeys
    \/ PlanCrew
    \/ PlanGraph
    \/ FinalFallback

Spec == Init /\ [][Next]_vars

-----------------------------------------------------------------------------
(* estimate_walk_minutes applied to bounded distances and speeds *)

WalkInit ==
    /\ walk_pc = "call"
    /\ walk_in \in [km : 0..MaxWalkDistance, kmph : WalkSpeeds]
    /\ walk_out = 0
    /\ PlannerIdle /\ ValidatorIdle /\ SelectorIdle /\ HandlerIdle
    /\ CriticIdle /\ CacheIdle

\* minutes = estimate_walk_minutes(km, kmph)
WalkEstimate ==
    /\ walk_pc = "call"
    /\ walk_out' = EstimateWalkMinutes(walk_in.km, walk_in.kmph)
    /\ walk_pc' = "done"
    /\ UNCHANGED walk_in
    /\ UNCHANGED <<plannerVars, validatorVars, selectorVars, handlerVars,
                   criticVars, cacheVars>>

WalkNext == WalkEstimate

WalkSpec == WalkInit /\ [][WalkNext]_vars

-----------------------------------------------------------------------------
(* review_itinerary on what its four review methods find *)

CriticInit ==
    /\ crit_pc = "call"
    /\ crit_in \in [basic : 0..MaxIssues, time : 0..MaxIssues,
                     efficiency : 0..MaxIssues, preference : 0..MaxIssues,
                     party : {2, 5}, undescribed_place : BOOLEAN]
    /\ crit_out = [overall_score |-> 100, is_acceptable |-> TRUE, error |-> FALSE]
    /\ PlannerIdle /\ ValidatorIdle /\ SelectorIdle /\ HandlerIdle
    /\ WalkIdle /\ CacheIdle

\* review = await critic.review_itinerary(itinerary, preferences)
Review ==
    /\ crit_pc = "call"
    /\ crit_out' = ReviewItinerary(crit_in)
    /\ crit_pc' = "done"
    /\ UNCHANGED crit_in
    /\ UNCHANGED <<plannerVars, validatorVars, selectorVars, handlerVars,
                   walkVars, cacheVars>>

CriticNext == Review

CriticSpec == CriticInit /\ [][CriticNext]_vars

-----------------------------------------------------------------------------
(* A CacheManager under sequences of set, get, delete and clear while the   *)
(* clock advances                                                           *)

CacheInit ==
    /\ CacheIdle
    /\ PlannerIdle /\ ValidatorIdle /\ SelectorIdle /\ HandlerIdle
    /\ WalkIdle /\ CriticIdle

\* await cache_manager.set(cache_key, data, ttl_seconds); a json.dump that
\* raises skips the periodic cleanup, and _check_cache_size finds the files
\* far below max_size_mb
CacheSet ==
    \E key \in CacheKeys, data \in CacheData, ttl_seconds \in TtlSeconds :
        LET cache_data == [key |-> key, data |-> data, created_at |-> now,
                           expires_at |-> now + ttl_seconds]
            added == AddToMemoryCache(memory_cache, memory_cache_size, cache_data)
            written == [cache_files EXCEPT ![key] =
                           IF JsonSerializable(data)
                           THEN <<[cache_data EXCEPT !.data = JsonRoundTrip(data)]>>
                           ELSE CorruptFile]
        IN  /\ cache_calls < MaxCacheCalls
            /\ memory_cache' = added.memory_cache
            /\ memory_cache_size' = added.memory_cache_size
            /\ cache_files' = IF JsonSerializable(data) /\ total_requests % 100 = 0
                              THEN CleanupExpiredCache(written, now)
                              ELSE written
            /\ last_set' = [last_set EXCEPT ![key] =
                                <<[data |-> data, expires_at |-> now + ttl_seconds]>>]
            /\ cache_ret' = [op |-> "set", key |-> key, value |-> NoneVal]
            /\ cache_calls' = cache_calls + 1
            /\ UNCHANGED <<total_requests, now>>
            /\ UNCHANGED <<plannerVars, validatorVars, selectorVars, handlerVars,
                           walkVars, criticVars>>

\* value = await cache_manager.get(cache_key)
CacheGet ==
    \E key \in CacheKeys :
        LET memory_hit == /\ InMemory(memory_cache, key)
                          /\ IsCacheValid(MemoryEntry(memory_cache, key), now)
            mem == MemoryWithout(memory_cache, key)
            size == IF InMemory(memory_cache, key)
                    THEN memory_cache_size - 1 ELSE memory_cache_size
            file == cache_files[key]
            file_hit == Readable(file) /\ IsCacheValid(file[1], now)
            added == AddToMemoryCache(mem, size, file[1])
        IN  /\ cache_calls < MaxCacheCalls
            /\ total_requests' = total_requests + 1
            /\ IF memory_hit
               THEN /\ cache_ret' = [op |-> "get", key |-> key,
                                     value |-> MemoryEntry(memory_cache, key).data]
                    /\ UNCHANGED <<memory_cache, memory_cache_size, cache_files>>
               ELSE IF file_hit
                    THEN /\ memory_cache' = added.memory_cache
                         /\ memory_cache_size' = added.memory_cache_size
                         /\ cache_ret' = [op |-> "get", key |-> key, value |-> file[1].data]
                         /\ UNCHANGED cache_files
                    ELSE /\ memory_cache' = mem
                         /\ memory_cache_size' = size
                         /\ cache_files' = [cache_files EXCEPT ![key] = NoFile]
                         /\ cache_ret' = [op |-> "get", key |-> key, value |-> NoneVal]
            /\ cache_calls' = cache_calls + 1
            /\ UNCHANGED <<now, last_set>>
            /\ UNCHANGED <<plannerVars, validatorVars, selectorVars, handlerVars,
                           walkVars, criticVars>>

\* await cache_manager.delete(cache_key)
CacheDelete ==
    \E key \in CacheKeys :
        /\ cache_calls < MaxCacheCalls
        /\ memory_cache' = MemoryWithout(memory_cache, key)
        /\ memory_cache_size' = IF InMemory(memory_cache, key)
                                THEN memory_cache_size - 1 ELSE memory_cache_size
        /\ cache_files' = [cache_files EXCEPT ![key] = NoFile]
        /\ cache_ret' = [op |-> "delete", key |-> key, value |-> NoneVal]
        /\ cache_calls' = cache_calls + 1
        /\ UNCHANGED <<total_requests, now, last_set>>
        /\ UNCHANGED <<plannerVars, validatorVars, selectorVars, handlerVars,
                       walkVars, criticVars>>

\* await cache_manager.clear()
CacheClear ==
    /\ cache_calls < MaxCacheCalls
    /\ memory_cache' = <<>>
    /\ memory_cache_size' = 0
    /\ cache_files' = [k \in CacheKeys |-> NoFile]
    /\ cache_ret' = [op |-> "clear", key |-> 0, value |-> NoneVal]
    /\ cache_calls' = cache_calls + 1
    /\ UNCHANGED <<total_requests, now, last_set>>
    /\ UNCHANGED <<plannerVars, validatorVars, selectorVars, handlerVars,
                   walkVars, criticVars>>

\* a second passes between two calls
ClockTick ==
    /\ now < MaxTime
    /\ now' = now + 1
    /\ UNCHANGED <<memory_cache, memory_cache_size, cache_files, total_requests,
                   cache_ret, last_set, cache_calls>>
    /\ UNCHANGED <<plannerVars, validatorVars, selectorVars, handlerVars,
                   walkVars, criticVars>>

CacheNext ==
    \/ CacheSet
    \/ CacheGet
    \/ CacheDelete
    \/ CacheClear
    \/ ClockTick

CacheSpec == CacheInit /\ [][CacheNext]_vars

-----------------------------------------------------------------------------
(* Claims about the planner, checked under PlannerSpec *)

PositionOf(s, x) == CHOOSE i \in DOMAIN s : s[i] = x

PlaceDistance(a, b) == HaversineKm(PlaceOf(a).lat, PlaceOf(b).lat)

\* the scheduled places of a day without the cafe break pseudo place
RealPlaces(day) == SelectSeq(AllPlaces(day), LAMBDA n : n # CafeBreakName)

\* C2: every DayPlan returned by plan_days has exactly
\* max(0, len(morning) + len(afternoon) + len(evening) - 1) transfers.
C2_TransferCount ==
    plan_pc = "done" =>
        \A i \in DOMAIN plan :
            Len(plan[i].transfers) = Max(0, Len(AllPlaces(plan[i])) - 1)

\* in output, a place that follows its predecessor at the same distance as a
\* later place stood before that later place in input
TieBrokenByInputOrder(input, output) ==
    \A k \in 2..Len(output) : \A j \in (k + 1)..Len(output) :
        PlaceDistance(output[k - 1], output[j]) = PlaceDistance(output[k - 1], output[k])
            => PositionOf(input, output[k]) < PositionOf(input, output[j])

C15_DayErrorDoesNotAbort == plan_pc # "error"

\* 1-based position in a list of n places where day i's slice of q places
\* begins: after the slice that reaches the end of the list, the first place
RECURSIVE SliceStart(_, _, _)
SliceStart(i, q, n) ==
    IF i = 1 THEN 1
    ELSE IF SliceStart(i - 1, q, n) + q > n THEN 1 ELSE SliceStart(i - 1, q, n) + q

\* C17: with a non-empty place list no day is left without a place: in the
\* basic plan the days take consecutive slices of the list in input order,
\* starting again at the first place once the list is exhausted, and the
\* returned plan has no empty day either.
C17_NoEmptyDay ==
    /\ (plan_pc = "style" /\ plan_in.places # <<>>) =>
           \E q \in 2..6 : \A i \in DOMAIN plan :
               /\ AllPlaces(plan[i]) # <<>>
               /\ AllPlaces(plan[i])
                     = SubSeq(plan_in.places,
                              SliceStart(i, q, Len(plan_in.places)),
                              Min(Len(plan_in.places),
                                  SliceStart(i, q, Len(plan_in.places)) + q - 1))
    /\ (plan_pc = "done" /\ plan_in.places # <<>>) =>
           \A i \in DOMAIN plan : AllPlaces(plan[i]) # <<>>

\* three places filled day 1, and day 2 started again at the first place
C17_Witness ==
    /\ plan_pc = "style"
    /\ Len(plan_in.places) = 3
    /\ plan_in.pref.pace = "balanced"
    /\ Len(plan) = 2
    /\ AllPlaces(plan[1]) = plan_in.places
    /\ AllPlaces(plan[2]) = plan_in.places

\* the quota range the claims name for a pace
PaceRange(pace) ==
    IF pace = "relaxed" THEN 2..4 ELSE IF pace = "packed" THEN 4..6 ELSE 3..5

\* the state after _create_basic_plan ran on a non-empty place list
BasicPlanBuilt ==
    /\ plan_pc = "style"
    /\ plan_in.places # <<>>
    /\ NumDays(plan_in.pref) >= 1

\* C18 as stated: per_day lies in the pace's range and is at most
\* len(places) // num_days, for every non-empty place list and num_days >= 1.
C18_QuotaInRangeAndBelowQuotient ==
    BasicPlanBuilt =>
        LET n  == Len(plan_in.places)
            pd == PerDay(plan_in.pref.pace, n, NumDays(plan_in.pref))
        IN  /\ pd \in PaceRange(plan_in.pref.pace)
            /\ pd <= n \div NumDays(plan_in.pref)

\* C18 amended: per_day is len(places) // num_days clamped into the pace's
\* range: always inside the range, at most the quotient when the quotient
\* reaches the range's lower end and equal to that lower end otherwise; the
\* first day holds per_day places (all of them when the list is shorter).
C18_QuotaClampedToRange ==
    BasicPlanBuilt =>
        LET n  == Len(plan_in.places)
            q  == n \div NumDays(plan_in.pref)
            pd == PerDay(plan_in.pref.pace, n, NumDays(plan_in.pref))
            lo == CHOOSE x \in PaceRange(plan_in.pref.pace) :
                      \A y \in PaceRange(plan_in.pref.pace) : x <= y
        IN  /\ pd \in PaceRange(plan_in.pref.pace)
            /\ q >= lo => pd <= q
            /\ q < lo => pd = lo
            /\ Len(AllPlaces(plan[1])) = Min(pd, n)

\* six places over two relaxed days: the quota is the quotient 3
C18_Witness ==
    /\ BasicPlanBuilt
    /\ plan_in.pref.pace = "relaxed"
    /\ Len(plan_in.places) = 6
    /\ NumDays(plan_in.pref) = 2
    /\ Len(AllPlaces(plan[1])) = 3

\* C19: in every DayPlan plan_days returns, each of the morning, afternoon and
\* evening buckets holds at most 2 places when pace is relaxed and at most 3
\* when pace is packed, with or without weather data.
C19_BucketCaps ==
    (plan_pc = "done" /\ plan_in.pref.pace \in {"relaxed", "packed"}) =>
        \A i \in DOMAIN plan :
            /\ Len(plan[i].morning) <= StyleBucketCap(plan_in.pref.pace)
            /\ Len(plan[i].afternoon) <= StyleBucketCap(plan_in.pref.pace)
            /\ Len(plan[i].evening) <= StyleBucketCap(plan_in.pref.pace)

\* day i of the trip has a forecast of rain, snow or storm
AdverseDay(i) ==
    /\ i <= Len(plan_in.weather)
    /\ plan_in.weather[i] \in AdverseConditions

\* C20: for a day whose forecast is rain, snow or storm, the returned DayPlan
\* has every indoor-category place of that day in the morning bucket and
\* every outdoor-category place in the afternoon or evening bucket.
C20_IndoorMorningOnAdverseDay ==
    plan_pc = "done" =>
        \A i \in DOMAIN plan :
            AdverseDay(i) =>
                /\ \A k \in DOMAIN plan[i].morning : IsIndoor(plan[i].morning[k])
                /\ \A k \in DOMAIN plan[i].afternoon : ~IsIndoor(plan[i].afternoon[k])
                /\ \A k \in DOMAIN plan[i].evening : ~IsIndoor(plan[i].evening[k])

\* output is the nearest-neighbour order of input: same first place, every
\* later place nearest to its predecessor among the places still to come
NearestNeighbourOrder(input, output) ==
    /\ Len(output) = Len(input)
    /\ input # <<>> => output[1] = input[1]
    /\ \A k \in 2..Len(output) : \A j \in k..Len(output) :
           PlaceDistance(output[k - 1], output[k]) <= PlaceDistance(output[k - 1], output[j])

\* C21: _optimize_place_order keeps the first input place first; every later
\* position k holds a place at minimal distance from the place at position
\* k-1 among the places not yet ordered, the earliest of the input among
\* equally near ones.
C21_NearestNeighbour ==
    [][plan_pc = "routes" /\ plan_pc' = "meals" =>
          \A i \in DOMAIN plan :
              Len(AllPlaces(plan[i])) >= 2 =>
                  /\ NearestNeighbourOrder(AllPlaces(plan[i]), AllPlaces(plan'[i]))
                  /\ TieBrokenByInputOrder(AllPlaces(plan[i]), AllPlaces(plan'[i]))]_vars

\* the route step changed the visit order of a day
C21_Witness ==
    /\ plan_pc = "meals"
    /\ \E i \in DOMAIN plan :
          /\ Len(AllPlaces(plan[i])) >= 3
          /\ AllPlaces(plan[i])
                # AllPlaces(WeatherAdjustedPlan(plan_in.pref, plan_in.places,
                                                plan_in.weather)[i])

\* C22: route optimisation only reorders a day: the morning, afternoon and
\* evening buckets keep their sizes, and their concatenation is a permutation
\* of the day's places before the step.
C22_RoutesOnlyReorder ==
    [][plan_pc = "routes" /\ plan_pc' = "meals" =>
          /\ Len(plan') = Len(plan)
          /\ \A i \in DOMAIN plan :
                /\ Len(plan'[i].morning) = Len(plan[i].morning)
                /\ Len(plan'[i].afternoon) = Len(plan[i].afternoon)
                /\ Len(plan'[i].evening) = Len(plan[i].evening)
                /\ \A n \in PlaceNames \cup {FallbackPlaceName(plan_in.pref.destination)} :
                      Count(AllPlaces(plan'[i]), n) = Count(AllPlaces(plan[i]), n)]_vars

\* the route step ran on a day with two morning places and an evening place
C22_Witness ==
    /\ plan_pc = "meals"
    /\ \E i \in DOMAIN plan :
          /\ Len(plan[i].morning) = 2
          /\ plan[i].afternoon # <<>>
          /\ plan[i].evening # <<>>

\* the transfers of day are those of its visit order morning + afternoon + evening
TransfersFollowOrder(day) ==
    /\ Len(day.transfers) = Max(0, Len(AllPlaces(day)) - 1)
    /\ \A k \in DOMAIN day.transfers :
          /\ k + 1 <= Len(AllPlaces(day))
          /\ day.transfers[k].from_place = AllPlaces(day)[k]
          /\ day.transfers[k].to_place = AllPlaces(day)[k + 1]

\* C23: in every returned DayPlan the transfer list describes the final
\* visit order: transfers[i] leads from the i-th to the (i+1)-th place of
\* morning + afternoon + evening.
C23_TransfersDescribeFinalOrder ==
    plan_pc = "done" => \A i \in DOMAIN plan : TransfersFollowOrder(plan[i])

\* the afternoon of day without the cafe break
RealAfternoon(day) == SelectSeq(day.afternoon, LAMBDA n : n # CafeBreakName)

\* C24: the cafe break is the first element of the afternoon exactly when
\* pace is relaxed and both the morning and the afternoon of the day have a
\* place (and it is in no other position or bucket); lunch names the last
\* morning place and dinner the last real afternoon place.
C24_BreakAndMeals ==
    plan_pc = "done" =>
        \A i \in DOMAIN plan :
            LET day == plan[i]
                due == /\ plan_in.pref.pace = "relaxed"
                       /\ day.morning # <<>>
                       /\ RealAfternoon(day) # <<>>
            IN  /\ Count(AllPlaces(day), CafeBreakName) = (IF due THEN 1 ELSE 0)
                /\ due => day.afternoon[1] = CafeBreakName
                /\ day.morning # <<>> =>
                       day.lunch = Near(day.morning[Len(day.morning)], "lunch")
                /\ RealAfternoon(day) # <<>> =>
                       day.dinner = Near(RealAfternoon(day)[Len(RealAfternoon(day))], "dinner")

\* a relaxed day got its break before two afternoon places
C24_Witness ==
    /\ plan_pc = "done"
    /\ plan_in.pref.pace = "relaxed"
    /\ \E i \in DOMAIN plan :
          /\ plan[i].morning # <<>>
          /\ Len(plan[i].afternoon) = 3
          /\ plan[i].afternoon[1] = CafeBreakName
          /\ plan[i].dinner = Near(plan[i].afternoon[3], "dinner")

\* the places the quota slice of _create_basic_plan assigns to day i
ScheduledPlaces(i) == AllPlaces(CreateBasicPlan(plan_in.pref, plan_in.places)[i])

\* C28: every place the per-day quota slice assigns to a day appears in
\* exactly one bucket of that day's returned DayPlan: pace trim, weather
\* reshuffle and route optimisation drop and duplicate nothing.
C28_ScheduledPlacesKept ==
    (plan_pc = "done" /\ plan_in.places # <<>>) =>
        \A i \in DOMAIN plan :
            \A k \in DOMAIN ScheduledPlaces(i) :
                Count(AllPlaces(plan[i]), ScheduledPlaces(i)[k]) = 1

-----------------------------------------------------------------------------
(* Claims about validate_plans, checked under ValidatorSpec *)

\* the days of the list whose buckets hold name
DaysWith(days, name) ==
    {i \in DOMAIN days : \E k \in DOMAIN AllPlaces(days[i]) : AllPlaces(days[i])[k] = name}

HasDuplicateIssue(issues, days, name) ==
    \E k \in DOMAIN issues : \E i \in DOMAIN days :
        issues[k] = DuplicateIssue(name, days[i].date)

\* C6 as stated: a 'Duplicate place: <name>' issue is emitted exactly when
\* the name appears in two or more DayPlans.
C6_DuplicateAcrossDayPlans ==
    val_pc = "done" =>
        \A n \in ValidatorNames :
            HasDuplicateIssue(val_issues, val_days, n)
                <=> Cardinality(DaysWith(val_days, n)) >= 2

\* C6 amended: the issue 'Duplicate place: <name> on <date>' is emitted once
\* for every occurrence of the name after its first one, counting the places
\* of all DayPlans in order; it carries the date of the day that holds the
\* repeated occurrence, whether or not the first one was on the same day.
C6_DuplicateEveryRepeat ==
    val_pc = "done" =>
        \A n \in ValidatorNames : \A i \in DOMAIN val_days :
            Count(val_issues, DuplicateIssue(n, val_days[i].date))
                = Count(AllPlaces(val_days[i]), n)
                  - (IF i \in DaysWith(val_days, n)
                        /\ \A j \in 1..(i - 1) : j \notin DaysWith(val_days, n)
                     THEN 1 ELSE 0)

\* a name that is in one DayPlan only, twice, has been flagged
C6_Witness ==
    /\ val_pc = "done"
    /\ \E n \in ValidatorNames :
          /\ Cardinality(DaysWith(val_days, n)) = 1
          /\ HasDuplicateIssue(val_issues, val_days, n)

\* C7: a 'Long walking time' issue is emitted for a day if and only if the
\* sum of the day's transfer travel_min is strictly greater than 120; it
\* states that sum, and no other long-walk issue is emitted.
C7_LongWalkIffOver120 ==
    val_pc = "done" =>
        /\ \A i \in DOMAIN val_days :
              (\E k \in DOMAIN val_issues :
                    val_issues[k] = LongWalkIssue(TotalWalk(val_days[i]), val_days[i].date))
                  <=> TotalWalk(val_days[i]) > 120
        /\ \A k \in DOMAIN val_issues : \E i \in DOMAIN val_days :
              \/ val_issues[k] = LongWalkIssue(TotalWalk(val_days[i]), val_days[i].date)
              \/ \E n \in ValidatorNames : val_issues[k] = DuplicateIssue(n, val_days[i].date)

\* one day with a sum of 150 was flagged, another with exactly 120 was not
C7_Witness ==
    /\ val_pc = "done"
    /\ \E i, j \in DOMAIN val_days :
          /\ TotalWalk(val_days[i]) = 150
          /\ TotalWalk(val_days[j]) = 120
          /\ \E k \in DOMAIN val_issues : val_issues[k] = LongWalkIssue(150, val_days[i].date)
          /\ Len(val_issues) = 1

-----------------------------------------------------------------------------
(* Claim about the attraction selector, checked under SelectorSpec *)

\* C8: when some candidate has a preference score above 0, no returned place
\* has preference score 0, for every budget level and interest list.
C8_NoZeroScoreReturned ==
    sel_pc = "done" =>
        ((\E i \in DOMAIN sel_in.candidates :
              PreferenceScore(sel_in.candidates[i], sel_in.pref) > 0)
         => \A k \in DOMAIN sel_out : PreferenceScore(sel_out[k], sel_in.pref) # 0)

\* the selector returned places and left out a candidate of score 0
C8_Witness ==
    /\ sel_pc = "done"
    /\ sel_out # <<>>
    /\ \E i \in DOMAIN sel_in.candidates :
          PreferenceScore(sel_in.candidates[i], sel_in.pref) = 0

\* the names of sel_out that belong to category cat
ReturnedOf(cat) == SelectSeq(sel_out, LAMBDA n : PlaceOf(n).category = cat)

\* position of a returned name in the list handed to the final selection
GivenPosition(name) == CHOOSE i \in DOMAIN sel_places : sel_places[i].name = name

\* C25: the final rebalancing returns at most max(1, total \div categories)
\* places of each category, keeps the order of the sorted list inside each
\* category, and never returns more places than it was given.
C25_RebalanceCaps ==
    sel_pc = "done" =>
        LET cats == {PlaceOf(sel_places[i].name).category : i \in DOMAIN sel_places}
        IN  /\ Len(sel_out) <= Len(sel_places)
            /\ \A k \in DOMAIN sel_out : \E i \in DOMAIN sel_places : sel_places[i].name = sel_out[k]
            /\ \A c \in cats :
                  Len(ReturnedOf(c)) <= Max(1, Len(sel_places) \div Cardinality(cats))
            /\ \A a, b \in DOMAIN sel_out :
                  (a < b /\ PlaceOf(sel_out[a]).category = PlaceOf(sel_out[b]).category)
                      => GivenPosition(sel_out[a]) < GivenPosition(sel_out[b])

\* three places of two categories were given and one of them was left out
C25_Witness ==
    /\ sel_pc = "done"
    /\ Len(sel_places) = 3
    /\ Len(sel_out) = 2
    /\ PlaceOf(sel_out[1]).category # PlaceOf(sel_out[2]).category

-----------------------------------------------------------------------------
(* Claims about POST /plan, checked under Spec *)

\* the request passed the schema, validate_preferences and the key check
Accepted ==
    /\ UserPreferencesValid(req.pref)
    /\ ~ValidatePreferencesRejects(req.pref)
    /\ ~ValidateApiKeysRejects(req.mode, env.openai_key)

SpanDays == (req.pref.end_date - req.pref.start_date) \div 24

InvalidPreferences ==
    \/ req.pref.destination \in {"", " "}
    \/ req.pref.interests = <<>>
    \/ Len(req.pref.interests) > 20
    \/ Len(req.pref.destination) > 100
    \/ req.pref.party < 1
    \/ req.pref.party > 20
    \/ ~req.pref.end_date_iso
    \/ req.pref.start_date >= req.pref.end_date
    \/ SpanDays > 30

\* C11: a request with invalid preferences is answered with a 4xx, and no
\* planning strategy (agent, heuristic, final fallback) is ever started for it.
C11_InvalidRejectedBeforePlanning ==
    /\ [](pc = "done" /\ InvalidPreferences =>
             resp.status \in {400, 422} /\ ~crew_failed /\ ~graph_failed)
    /\ [][InvalidPreferences => pc' \notin {"crew", "graph", "final"}]_vars

\* a request over 31 days, otherwise valid, was answered 400 with no strategy
\* started
C11_Witness ==
    /\ pc = "done"
    /\ SpanDays = 31
    /\ req.pref.destination = "Paris"
    /\ req.pref.interests = <<"art">>
    /\ resp.status = 400
    /\ ~crew_failed /\ ~graph_failed

\* the request is accepted, the destination can be researched and there are
\* candidate places: the heuristic path has valid inputs
HeuristicInputsValid ==
    /\ Accepted
    /\ env.research_ok
    /\ env.candidates # <<>>

\* C3: when the agent strategy raised and the heuristic path has valid
\* inputs, /plan ends in a successful response, never in a 5xx.
C3_AgentFailureStillSucceeds ==
    (pc = "done" /\ crew_failed /\ HeuristicInputsValid) => resp.status = 200

\* C4: when the agent strategy failed, the returned itinerary is the one the
\* heuristic strategy (plan_itinerary) produces for the same preferences.
C4_FallbackIsHeuristicItinerary ==
    (pc = "done" /\ crew_failed /\ HeuristicInputsValid) =>
        /\ ~PlanItinerary(req.pref, env).raised
        /\ resp.itinerary = PlanItinerary(req.pref, env).resp.itinerary

\* C5: with an empty candidate-place result the response still has num_days
\* DayPlans, each with exactly one place over its three buckets and no
\* transfers.
C5_EmptyCandidatesFallbackDays ==
    (pc = "done" /\ Accepted /\ env.research_ok /\ env.candidates = <<>>) =>
        /\ resp.status = 200
        /\ Len(resp.itinerary.days) = SpanDays + 1
        /\ \A i \in DOMAIN resp.itinerary.days :
              /\ Len(AllPlaces(resp.itinerary.days[i])) = 1
              /\ resp.itinerary.days[i].transfers = <<>>

\* C10: every valid UserPreferences gets a response whose itinerary has at
\* least one DayPlan, a summary that holds the destination, and non-empty
\* etiquette, packing and safety tips.
C10_ValidPreferencesGetItinerary ==
    (pc = "done" /\ HeuristicInputsValid) =>
        /\ resp.status = 200
        /\ Len(resp.itinerary.days) >= 1
        /\ \E rest \in {PlanSummary([req.pref EXCEPT !.destination = ""]), " std plan"} :
              resp.itinerary.summary = req.pref.destination \o rest
        /\ resp.itinerary.tips.etiquette # <<>>
        /\ resp.itinerary.tips.packing # <<>>
        /\ resp.itinerary.tips.safety # <<>>

\* C12: a destination that cannot be geocoded (run_research raises) is
\* surfaced to the caller as an error, never as a successful itinerary
\* response.
C12_UngeocodableIsHardError ==
    (pc = "done" /\ Accepted /\ ~env.research_ok) => resp.status >= 400

\* C13: for a validated request whose normal planning failed, the response is
\* the final fallback itinerary, one generic activity for each day of the
\* trip, and a 500 is returned only when that fallback itinerary cannot be
\* built (the Itinerary model rejects its summary or its day list).
C13_FailureEndsInFinalFallback ==
    (pc = "done" /\ Accepted /\ (crew_failed \/ graph_failed)) =>
        \/ /\ resp.status = 200
           /\ resp.mode = "fallback"
           /\ Len(resp.itinerary.days) = SpanDays + 1
           /\ \A i \in DOMAIN resp.itinerary.days :
                 /\ AllPlaces(resp.itinerary.days[i])
                        = <<FallbackPlaceName(req.pref.destination)>>
                 /\ resp.itinerary.days[i].transfers = <<>>
        \/ /\ resp.status = 500
           /\ ~ItineraryValid(PlanSummary(req.pref), MainFallbackDays(req.pref),
                              MainFallbackTips)

\* with no candidate places the two-day fallback itinerary was returned
C13_Witness ==
    /\ pc = "done"
    /\ graph_failed
    /\ env.research_ok
    /\ env.candidates = <<>>
    /\ resp.status = 200
    /\ resp.mode = "fallback"
    /\ Len(resp.itinerary.days) = 2

-----------------------------------------------------------------------------
(* Claims about the itinerary built after validation, under ValidatorSpec *)

\* C14: validation is advisory: whatever issues validate_plans returned for
\* the planned days, the heuristic strategy constructs the itinerary of
\* those days, the issues appearing only in its summary.
C14_ValidationNeverBlocks ==
    (val_pc = "built" /\ val_days # <<>>) =>
        /\ ~val_itinerary.raised
        /\ val_itinerary.days = val_days

-----------------------------------------------------------------------------
(* Claims about estimate_walk_minutes, checked under WalkSpec *)

\* km / speed * 60 in exact arithmetic, rounded down
ExactWalkFloor == (walk_in.km * 60) \div (walk_in.kmph * 100)

C27_AcceptedDayCountFits ==
    (pc = "done" /\ Accepted) =>
        /\ Len(MainFallbackDays(req.pref)) \in 1..30
        /\ resp.status >= 500 =>
               ~ItineraryValid(PlanSummary(req.pref), <<MainFallbackDay(req.pref, 1)>>,
                               MainFallbackTips)

-----------------------------------------------------------------------------
(* Claims about review_itinerary, checked under CriticSpec *)

\* the points (in tenths) a category takes off: step per issue up to cap
Deduction(issues, step, cap) == IF issues * step > cap THEN cap ELSE issues * step

\* C26: the overall score is 10 minus the capped deductions min(2b, 4) +
\* min(1.5t, 3) + min(e, 2) + min(p, 2), kept within 0..10; the itinerary is
\* acceptable exactly when the score is at least 7; a review that fails
\* internally reports score 0 and not acceptable.
C26_OverallScore ==
    crit_pc = "done" =>
        LET raw == 100 - ( Deduction(crit_in.basic, 20, 40)
                         + Deduction(crit_in.time, 15, 30)
                         + Deduction(crit_in.efficiency, 10, 20)
                         + Deduction(crit_in.preference, 10, 20))
        IN  IF crit_out.error
            THEN crit_out.overall_score = 0 /\ ~crit_out.is_acceptable
            ELSE /\ crit_out.overall_score = (IF raw < 0 THEN 0 ELSE raw)
                 /\ crit_out.overall_score \in 0..100
                 /\ crit_out.is_acceptable <=> crit_out.overall_score >= 70

\* every category at its cap: 10 - 11 is kept at 0, not acceptable
C26_Witness ==
    /\ crit_pc = "done"
    /\ ~crit_out.error
    /\ crit_in.basic = 3 /\ crit_in.time = 2
    /\ crit_in.efficiency = 2 /\ crit_in.preference = 2
    /\ crit_out.overall_score = 0
    /\ ~crit_out.is_acceptable

-----------------------------------------------------------------------------
(* Claims about the CacheManager, checked under CacheSpec *)

\* the step is a call of get
GetReturned == cache_ret'.op = "get" /\ cache_calls' = cache_calls + 1

\* get returned None, or the data of the latest set of the key before that
\* set's TTL elapsed
ReturnsLatestSet ==
    \/ cache_ret'.value = NoneVal
    \/ /\ last_set[cache_ret'.key] # <<>>
       /\ cache_ret'.value = last_set[cache_ret'.key][1].data
       /\ now < last_set[cache_ret'.key][1].expires_at

\* the entry of the key get looks up is expired in memory or in its file
ExpiredAtLookup ==
    \/ /\ InMemory(memory_cache, cache_ret'.key)
       /\ now >= MemoryEntry(memory_cache, cache_ret'.key).expires_at
    \/ /\ Readable(cache_files[cache_ret'.key])
       /\ now >= cache_files[cache_ret'.key][1].expires_at

\* C29: after any sequence of set, get, delete and clear, get(k) returns
\* None or the data of the most recent set(k, ...), and that data only while
\* its TTL has not elapsed; an entry found expired at lookup is removed from
\* both the memory and the file store.
C29_GetReturnsLatestSet ==
    [][GetReturned =>
          /\ ReturnsLatestSet
          /\ ExpiredAtLookup =>
                 /\ ~InMemory(memory_cache', cache_ret'.key)
                 /\ cache_files'[cache_ret'.key] = NoFile]_vars

\* C30: after any sequence of set, get, delete and clear, the counter
\* memory_cache_size equals the number of entries in memory_cache, and that
\* number never exceeds max_memory_items.
C30_CounterMatchesEntries ==
    /\ memory_cache_size = Len(memory_cache)
    /\ Len(memory_cache) <= MaxMemoryItems

====
